---- MODULE Spec2Model ----
(***************************************************************************)
(* Model of the libdnf product-id plugin                                   *)
(* (src/dnf-plugins/product-id/product-id.c).                              *)
(*                                                                         *)
(* Strings that the code inspects character by character (file names,      *)
(* OID texts, product ids) are sequences of one-character strings.         *)
(* Certificate texts and compressed streams are sequences of bytes         *)
(* (naturals, 0 is the NUL byte).  Repository ids and package NEVRAs are   *)
(* only compared for equality and are plain strings.                       *)
(***************************************************************************)
EXTENDS Integers, Sequences, FiniteSets, TLC

\* ------------------------------------------------------------------------
\* Bounds of the model
\* ------------------------------------------------------------------------
\* Scaled size of the chunk buffer of decompress (product-id.h: CHUNK).
CHUNK == 5
\* Number of gzread calls after which the modelled stream must end.
MaxReads == 3
\* Number of consecutive passes counted for an unchanged host.
MaxRuns == 1
\* Number of extensions of the certificates findProductId is run on.
MaxExts == 3
\* Number of packages of a repository and of the rpm database.
MaxPkgs == 2

\* ------------------------------------------------------------------------
\* Program constants
\* ------------------------------------------------------------------------
\* product-id.h: size of the buffer OBJ_obj2txt writes the OID text into.
MAX_BUFF == 256
\* product-id.h: REDHAT_PRODUCT_OID "1.3.6.1.4.1.2312.9.1"
REDHAT_PRODUCT_OID ==
    <<"1", ".", "3", ".", "6", ".", "1", ".", "4", ".", "1", ".",
      "2", "3", "1", "2", ".", "9", ".", "1">>
\* glib TRUE / FALSE
TRUE_ == 1
FALSE_ == 0

\* ------------------------------------------------------------------------
\* glib / libc string helpers
\* ------------------------------------------------------------------------
Min(a, b) == IF a < b THEN a ELSE b

DigitChars == <<"0", "1", "2", "3", "4", "5", "6", "7", "8", "9">>

\* g_ascii_isdigit
g_ascii_isdigit(c) == c \in {"0", "1", "2", "3", "4", "5", "6", "7", "8", "9"}

\* decimal text of a non-negative number, as OBJ_obj2txt prints an arc
RECURSIVE ItoA(_)
ItoA(n) ==
    IF n < 10 THEN <<DigitChars[n + 1]>>
    ELSE ItoA(n \div 10) \o <<DigitChars[(n % 10) + 1]>>

g_str_has_prefix(str, prefix) ==
    /\ Len(str) >= Len(prefix)
    /\ SubSeq(str, 1, Len(prefix)) = prefix

g_str_has_suffix(str, suffix) ==
    /\ Len(str) >= Len(suffix)
    /\ SubSeq(str, Len(str) - Len(suffix) + 1, Len(str)) = suffix

g_strndup(str, n) == SubSeq(str, 1, Min(n, Len(str)))

\* g_strsplit(str, delim, -1) for a one-character delimiter: the tokens
\* between the delimiters, empty tokens included; no token for "".
RECURSIVE SplitFrom(_, _, _)
SplitFrom(str, delim, cur) ==
    IF str = <<>> THEN <<cur>>
    ELSE IF Head(str) = delim
         THEN <<cur>> \o SplitFrom(Tail(str), delim, <<>>)
         ELSE SplitFrom(Tail(str), delim, Append(cur, Head(str)))

g_strsplit(str, delim) ==
    IF str = <<>> THEN <<>> ELSE SplitFrom(str, delim, <<>>)

\* The bytes of a buffer up to its first NUL: what "%s" prints.
RECURSIVE CStr(_)
CStr(buf) ==
    IF buf = <<>> \/ Head(buf) = 0 THEN <<>>
    ELSE <<Head(buf)>> \o CStr(Tail(buf))

\* ------------------------------------------------------------------------
\* decompress (product-id.c 609-634)
\* ------------------------------------------------------------------------
\* One gzread outcome is a record
\*   [n |-> bytes_read, data |-> the bytes stored, eof |-> gzeof, err |-> gzerror]
\* with n = -1 when zlib reports the error without delivering a byte.

\* buffer[bytes_read] = '\0', line 616: the index written.
TerminatorIndex(bytes_read) == bytes_read

\* g_string_printf(output, "%s", buffer): the new value of output.
StoreChunk(output, buffer) == CStr(buffer)

\* One iteration of the loop for a read that delivered n >= 0 bytes:
\* buffer[n] = '\0', then the chunk is printed into output, then the
\* end-of-stream / error test.
\* gzeof(input) after the read, line 619.
gzeof_never(rd) == FALSE
gzeof(rd) == rd.eof

DecompressStep_noerr(output, rd) ==
    LET buffer == rd.data \o <<0>>
        out    == StoreChunk(output, buffer)
    IN  IF rd.n < CHUNK - 1
        THEN IF rd.eof \/ rd.err THEN [st |-> "ok", output |-> out]
             ELSE [st |-> "loop", output |-> out]
        ELSE [st |-> "loop", output |-> out]
DecompressStep(output, rd) ==
    LET buffer == rd.data \o <<0>>
        out    == StoreChunk(output, buffer)
    IN  IF rd.n < CHUNK - 1
        THEN IF gzeof(rd) THEN [st |-> "ok", output |-> out]
             ELSE IF rd.err THEN [st |-> "fail", output |-> out]
             ELSE [st |-> "loop", output |-> out]
        ELSE [st |-> "loop", output |-> out]

\* The reads zlib delivers for a regular file holding `data`, the stream
\* being corrupt after `data` when `bad`: full reads of CHUNK - 1 bytes,
\* then one short read that hits end of file or the error.
RECURSIVE GzReads(_, _)
GzReads(data, bad) ==
    IF Len(data) >= CHUNK - 1
    THEN <<[n |-> CHUNK - 1, data |-> SubSeq(data, 1, CHUNK - 1),
            eof |-> FALSE, err |-> FALSE]>>
         \o GzReads(SubSeq(data, CHUNK, Len(data)), bad)
    ELSE <<[n |-> Len(data), data |-> data, eof |-> ~bad, err |-> bad]>>

\* decompress(input, output) run to its return on a regular file.
RECURSIVE DecompressLoop(_, _)
DecompressLoop(reads, output) ==
    LET r == DecompressStep(output, Head(reads))
    IN  IF r.st = "loop" THEN DecompressLoop(Tail(reads), r.output)
        ELSE [ret |-> IF r.st = "ok" THEN TRUE_ ELSE FALSE_, output |-> r.output]

decompress(input, output) == DecompressLoop(GzReads(input.data, input.bad), output)

\* ------------------------------------------------------------------------
\* findProductId (product-id.c 538-600)
\* ------------------------------------------------------------------------
\* Certificate texts are byte sequences: a header byte followed by one byte
\* per X.509 extension.  ExtOid gives the OID (sequence of arcs) a byte
\* stands for.
PEM_HDR == 1
ExtCodes == {2, 3, 4, 5, 6}
ExtOid(b) ==
    CASE b = 2 -> <<2, 5, 29, 19>>
      [] b = 3 -> <<1, 3, 6, 1, 4, 1, 2312, 9, 1, 69, 1>>
      [] b = 4 -> <<1, 3, 6, 1, 4, 1, 2312, 9, 1, 70, 1>>
      [] b = 5 -> <<1, 3, 6, 1, 4, 1, 2312, 9, 1>>
      [] b = 6 -> <<1, 3, 6, 1, 4, 1, 2312, 9, 10, 77>>

\* PEM_read_bio_X509: null, or the X509 structure with its extensions.
PEM_read_bio_X509(text) ==
    IF /\ text # <<>>
       /\ Head(text) = PEM_HDR
       /\ \A k \in 2..Len(text) : text[k] \in ExtCodes
    THEN [null |-> FALSE, exts |-> [k \in 1..(Len(text) - 1) |-> ExtOid(text[k + 1])]]
    ELSE [null |-> TRUE, exts |-> <<>>]

\* OBJ_obj2txt(oid, MAX_BUFF, obj, 1): dotted decimal, cut to the buffer.
RECURSIVE Dotted(_)
Dotted(arcs) ==
    IF Len(arcs) = 1 THEN ItoA(arcs[1])
    ELSE ItoA(arcs[1]) \o <<".">> \o Dotted(Tail(arcs))

OBJ_obj2txt(arcs) ==
    LET txt == Dotted(arcs) IN SubSeq(txt, 1, Min(Len(txt), MAX_BUFF - 1))

\* The value of ret_val on the failure paths.
RetNotFound == -1

\* The extension loop: first extension whose OID text has the vendor
\* prefix decides; result keeps its value unless components[9] exists.
\* diag is the level of the message logged on the way out.
\* ret_val left at 1 when the vendor OID has too few components.
RECURSIVE FindLoop_shortok(_, _, _)
FindLoop_shortok(exts, i, result) ==
    IF i > Len(exts)
    THEN [ret |-> RetNotFound, result |-> result, diag |-> "warn"]
    ELSE LET oid == OBJ_obj2txt(exts[i]) IN
         IF g_str_has_prefix(oid, REDHAT_PRODUCT_OID)
         THEN LET components == g_strsplit(oid, ".") IN
              IF Len(components) > 9
              THEN [ret |-> 1, result |-> components[10], diag |-> "debug"]
              ELSE [ret |-> 1, result |-> result, diag |-> "error"]
         ELSE FindLoop_shortok(exts, i + 1, result)
RECURSIVE FindLoop(_, _, _)
FindLoop(exts, i, result) ==
    IF i > Len(exts)
    THEN [ret |-> RetNotFound, result |-> result, diag |-> "warn"]
    ELSE LET oid == OBJ_obj2txt(exts[i]) IN
         IF g_str_has_prefix(oid, REDHAT_PRODUCT_OID)
         THEN LET components == g_strsplit(oid, ".") IN
              IF Len(components) > 9
              THEN [ret |-> 1, result |-> components[10], diag |-> "debug"]
              ELSE [ret |-> RetNotFound, result |-> result, diag |-> "error"]
         ELSE FindLoop(exts, i + 1, result)

findProductId(certContent, result) ==
    LET x509 == PEM_read_bio_X509(certContent) IN
    IF x509.null
    THEN [ret |-> RetNotFound, result |-> result, diag |-> "debug"]
    ELSE FindLoop(x509.exts, 1, result)

\* ------------------------------------------------------------------------
\* ProductDb (productdb.c): a set of <<product id, repository id>> pairs
\* ------------------------------------------------------------------------
initProductDb == {}
hasProductId(productDb, productId) == \E p \in productDb : p[1] = productId
\* The repository replaces those recorded for the product id.
addRepoId_replace(productDb, productId, repoId) ==
    {p \in productDb : p[1] # productId} \cup {<<productId, repoId>>}
addRepoId(productDb, productId, repoId) == productDb \cup {<<productId, repoId>>}
DbKeys(productDb) == {p[1] : p \in productDb}

\* ------------------------------------------------------------------------
\* The certificate directory: [exists, files], files a set of
\* <<file name, content>> pairs with one pair per name
\* ------------------------------------------------------------------------
PEM_SUFFIX == <<".", "p", "e", "m">>

FileNames(files) == {f[1] : f \in files}
HasFile(dir, name) == dir.exists /\ name \in FileNames(dir.files)

\* fopen(name, "w+") truncates, fprintf writes the text, fclose.
WriteFile_append(files, name, text) ==
    LET old == IF name \in FileNames(files)
               THEN (CHOOSE f \in files : f[1] = name)[2] ELSE <<>>
    IN  {f \in files : f[1] # name} \cup {<<name, old \o text>>}
WriteFile(files, name, text) ==
    {f \in files : f[1] # name} \cup {<<name, text>>}

\* ------------------------------------------------------------------------
\* removeUnusedProductCerts (product-id.c 88-134)
\* ------------------------------------------------------------------------
\* g_strndup(file_name, strlen(file_name) - 4)
StemOf_short(file_name) == g_strndup(file_name, Len(file_name) - 3)
StemOf(file_name) == g_strndup(file_name, Len(file_name) - 4)

\* The digit test loop, lines 103-108: stops at the first non-digit.
RECURSIVE IsNumFrom(_, _)
IsNumFrom(product_id, i) ==
    IF i > Len(product_id) THEN TRUE
    ELSE IF ~g_ascii_isdigit(product_id[i]) THEN FALSE
    ELSE IsNumFrom(product_id, i + 1)

is_num_first(product_id) ==
    product_id = <<>> \/ g_ascii_isdigit(product_id[1])
is_num(product_id) == IsNumFrom(product_id, 1)

\* What the loop body decides for one directory entry, lines 99-114.
SweepDecision_nonempty(file_name, productDb) ==
    IF g_str_has_suffix(file_name, PEM_SUFFIX)
    THEN LET product_id == StemOf(file_name) IN
         IF product_id = <<>> \/ ~is_num(product_id) THEN "skip"
         ELSE IF ~hasProductId(productDb, product_id) THEN "remove"
         ELSE "keep"
    ELSE "ignore"
SweepDecision(file_name, productDb) ==
    IF g_str_has_suffix(file_name, PEM_SUFFIX)
    THEN LET product_id == StemOf(file_name) IN
         IF ~is_num(product_id) THEN "skip"
         ELSE IF ~hasProductId(productDb, product_id) THEN "remove"
         ELSE "keep"
    ELSE "ignore"

\* g_remove: -1 and no change for a file the file system refuses to unlink.
g_remove(files, name, undeletable) ==
    IF name \in undeletable THEN [ret |-> -1, files |-> files]
    ELSE [ret |-> 0, files |-> {f \in files : f[1] # name}]

\* The do-while over g_dir_read_name: every entry is visited once, in an
\* order the file system chooses.
\* The loop left at the first g_remove that returns -1.
RECURSIVE SweepLoop_stop(_, _, _, _)
SweepLoop_stop(todo, files, productDb, undeletable) ==
    IF todo = {} THEN files
    ELSE LET file_name == CHOOSE n \in todo : TRUE
             rm == g_remove(files, file_name, undeletable)
         IN  IF SweepDecision(file_name, productDb) = "remove"
             THEN IF rm.ret = -1 THEN files
                  ELSE SweepLoop_stop(todo \ {file_name}, rm.files, productDb,
                                      undeletable)
             ELSE SweepLoop_stop(todo \ {file_name}, files, productDb,
                                 undeletable)
RECURSIVE SweepLoop(_, _, _, _)
SweepLoop(todo, files, productDb, undeletable) ==
    IF todo = {} THEN files
    ELSE LET file_name == CHOOSE n \in todo : TRUE
             after == IF SweepDecision(file_name, productDb) = "remove"
                      THEN g_remove(files, file_name, undeletable).files
                      ELSE files
         IN  SweepLoop(todo \ {file_name}, after, productDb, undeletable)

\* g_dir_open fails when the directory does not exist; nothing happens then.
removeUnusedProductCerts(productDb, dir, undeletable) ==
    IF dir.exists
    THEN [dir EXCEPT !.files =
             SweepLoop(FileNames(dir.files), dir.files, productDb, undeletable)]
    ELSE dir

\* ------------------------------------------------------------------------
\* The host: repositories, rpm database and file system behaviour
\* ------------------------------------------------------------------------
\* dnf_context_get_repos order
RepoOrder == <<"repo-a", "repo-b">>
RepoIds == {"repo-a", "repo-b"}

FOO == "foo-1.0-1.x86_64"
BAR == "bar-2.0-1.noarch"
BAZ == "baz-0.3-7.x86_64"
InstalledPackages == <<BAZ, FOO>>

\* Fetched productid artifacts: the uncompressed bytes, and whether the
\* compressed stream is corrupt after them.
A69 == [data |-> <<PEM_HDR, 2, 3>>, bad |-> FALSE]
A70 == [data |-> <<PEM_HDR, 4>>, bad |-> FALSE]
ANoOid == [data |-> <<PEM_HDR, 2>>, bad |-> FALSE]
AShortOid == [data |-> <<PEM_HDR, 5, 3>>, bad |-> FALSE]
AGarbage == [data |-> <<7, 7>>, bad |-> FALSE]
\* a certificate for product 69 that does not fit one read
ALong == [data |-> [k \in 1..CHUNK |-> IF k = 1 THEN PEM_HDR
                                       ELSE IF k = CHUNK THEN 3 ELSE 2],
          bad |-> FALSE]
ACorrupt == [data |-> <<PEM_HDR, 3>>, bad |-> TRUE]
ACorruptLong == [ALong EXCEPT !.bad = TRUE]

Artifacts == {A69, A70, ANoOid, AShortOid, AGarbage, ALong, ACorrupt,
              ACorruptLong}

\* A repository as the plugin sees it:
\*   enabled  dnf_repo_get_enabled has DNF_REPO_ENABLED_PACKAGES
\*   md       lr_result_getinfo / lr_yum_repomd_get_record outcome
\*   fetch    lr_handle_perform and lr_result_getinfo succeed
\*   avail    NEVRAs of the packages available from the repository
\*   gz       gzopen of the fetched path succeeds
\*   art      the fetched artifact
Base(a) == [enabled |-> TRUE, md |-> "record", fetch |-> TRUE,
            avail |-> <<BAR, FOO>>, gz |-> TRUE, art |-> a]

ProfilesA ==
    {Base(a) : a \in Artifacts}
    \cup {[Base(A69) EXCEPT !.enabled = FALSE]}
    \cup {[Base(A69) EXCEPT !.md = m] : m \in {"err", "null", "norecord"}}
    \cup {[Base(A69) EXCEPT !.fetch = FALSE]}
    \cup {[Base(A69) EXCEPT !.avail = v] : v \in {<<>>, <<BAR>>}}
    \cup {[Base(A69) EXCEPT !.gz = FALSE]}

ProfilesB ==
    {Base(A69), Base(A70), Base(ANoOid),
     [Base(A70) EXCEPT !.enabled = FALSE],
     [Base(A70) EXCEPT !.avail = <<BAR>>]}

P69 == <<"6", "9", ".", "p", "e", "m">>
P70 == <<"7", "0", ".", "p", "e", "m">>
S99 == <<"9", "9", ".", "p", "e", "m">>
SABC == <<"a", "b", "c", ".", "p", "e", "m">>
S6A == <<"6", "a", ".", "p", "e", "m">>
SDOT == <<".", "p", "e", "m">>
S69PEM == <<"6", "9", "p", "e", "m">>
SNOTES == <<"n", "o", "t", "e", "s">>
OLD == <<9>>

\* File system behaviour:
\*   mkdb        g_mkdir_with_parents(PRODUCTDB_DIR) can create the directory
\*   mkcert      g_mkdir_with_parents(PRODUCT_CERT_DIR) can create it
\*   unwritable  names fopen(.., "w+") fails for
\*   undeletable names g_remove fails for
\*   write       writeProductDb succeeds
NoFaults == [mkdb |-> TRUE, mkcert |-> TRUE, unwritable |-> {},
             undeletable |-> {}, write |-> TRUE]

FaultSets ==
    {NoFaults,
     [NoFaults EXCEPT !.mkdb = FALSE],
     [NoFaults EXCEPT !.mkcert = FALSE],
     [NoFaults EXCEPT !.unwritable = {P69}],
     [NoFaults EXCEPT !.undeletable = {S99}],
     [NoFaults EXCEPT !.write = FALSE],
     [NoFaults EXCEPT !.unwritable = {P69}, !.undeletable = {S99},
                      !.write = FALSE]}

\* Repository lists: one repository varies over its profiles while the
\* other one is in order.
RepoPairs ==
    {<<pa, Base(A70)>> : pa \in ProfilesA}
    \cup {<<pa, pb>> : pa \in {Base(A69), Base(ANoOid)}, pb \in ProfilesB}

Hosts ==
    {[nullRepos |-> FALSE,
      repos |-> [r \in RepoIds |-> IF r = "repo-a" THEN pp[1] ELSE pp[2]],
      installed |-> InstalledPackages,
      faults |-> f] : pp \in RepoPairs, f \in FaultSets}
    \cup {[nullRepos |-> n,
           repos |-> [r \in RepoIds |-> Base(A69)],
           installed |-> i,
           faults |-> NoFaults] : n \in BOOLEAN, i \in {<<>>, <<BAZ>>}}

\* ------------------------------------------------------------------------
\* getEnabled (293-301), fetchProductId (385-472), getActive (308-379)
\* ------------------------------------------------------------------------
RECURSIVE getEnabled(_, _)
getEnabled(repos, h) ==
    IF repos = <<>> THEN <<>>
    ELSE (IF h.repos[Head(repos)].enabled THEN <<Head(repos)>> ELSE <<>>)
         \o getEnabled(Tail(repos), h)

\* ret set to 1 whatever the download did.
fetchProductId_always(repo, h) ==
    [ret |-> 1, repoProductId |-> [repo |-> repo, productIdPath |-> repo]]
\* 1 with the entry filled in, 0 otherwise
fetchProductId(repo, h) ==
    IF h.repos[repo].fetch
    THEN [ret |-> 1, repoProductId |-> [repo |-> repo, productIdPath |-> repo]]
    ELSE [ret |-> 0, repoProductId |-> [repo |-> repo, productIdPath |-> ""]]

\* inner loop, 358-368: is pkg among the installed packages
RECURSIVE PackageFound(_, _)
PackageFound(pkg, installedPackages) ==
    IF installedPackages = <<>> THEN FALSE
    ELSE IF pkg = Head(installedPackages) THEN TRUE
    ELSE PackageFound(pkg, Tail(installedPackages))

\* middle loop, 353-373: stop at the first available package found
\* Only the first available package is compared.
AnyPackageFound_first(availPackageList, installedPackages) ==
    IF availPackageList = <<>> THEN FALSE
    ELSE PackageFound(Head(availPackageList), installedPackages)
RECURSIVE AnyPackageFound(_, _)
AnyPackageFound(availPackageList, installedPackages) ==
    IF availPackageList = <<>> THEN FALSE
    ELSE IF PackageFound(Head(availPackageList), installedPackages) THEN TRUE
    ELSE AnyPackageFound(Tail(availPackageList), installedPackages)

\* Every fetched repository taken as active, the package test left out.
getActive_all(repoAndProductIds, h) == repoAndProductIds
RECURSIVE getActive(_, _)
getActive(repoAndProductIds, h) ==
    IF repoAndProductIds = <<>> THEN <<>>
    ELSE LET rp == Head(repoAndProductIds) IN
         (IF AnyPackageFound(h.repos[rp.repo].avail, h.installed)
          THEN <<rp>> ELSE <<>>)
         \o getActive(Tail(repoAndProductIds), h)

\* ------------------------------------------------------------------------
\* installProductId (product-id.c 474-529)
\* ------------------------------------------------------------------------
\* g_mkdir_with_parents: 0 when the directory exists or can be created
g_mkdir_with_parents(exists, creatable) == IF exists \/ creatable THEN 0 ELSE -1

\* Lines 494-514: create the directory, write <productId>.pem, record the pair.
InstallCert_always(productId, pemOutput, repoId, productDb, dir, faults) ==
    IF g_mkdir_with_parents(dir.exists, faults.mkcert) = 0
    THEN LET outname == productId \o PEM_SUFFIX IN
         IF outname \notin faults.unwritable
         THEN [ret |-> 1,
               productDb |-> addRepoId(productDb, productId, repoId),
               dir |-> [exists |-> TRUE,
                        files |-> WriteFile(dir.files, outname, pemOutput)]]
         ELSE [ret |-> 0,
               productDb |-> addRepoId(productDb, productId, repoId),
               dir |-> [dir EXCEPT !.exists = TRUE]]
    ELSE [ret |-> 0, productDb |-> productDb, dir |-> dir]
InstallCert(productId, pemOutput, repoId, productDb, dir, faults) ==
    IF g_mkdir_with_parents(dir.exists, faults.mkcert) = 0
    THEN LET outname == productId \o PEM_SUFFIX IN
         IF outname \notin faults.unwritable
         THEN [ret |-> 1,
               productDb |-> addRepoId(productDb, productId, repoId),
               dir |-> [exists |-> TRUE,
                        files |-> WriteFile(dir.files, outname, pemOutput)]]
         ELSE [ret |-> 0, productDb |-> productDb,
               dir |-> [dir EXCEPT !.exists = TRUE]]
    ELSE [ret |-> 0, productDb |-> productDb, dir |-> dir]

\* The result also reports what decompress and findProductId returned
\* (dec = -1: gzopen failed; find = 0: findProductId was not called).
installProductId(repoProductId, productDb, dir, h) ==
    LET prof == h.repos[repoProductId.productIdPath]
        none == [ret |-> 0, productDb |-> productDb, dir |-> dir]
    IN  IF ~prof.gz
        THEN [res |-> none, dec |-> -1, find |-> 0, pid |-> <<>>]
        ELSE LET d == decompress(prof.art, <<>>) IN
             IF d.ret = FALSE_
             THEN [res |-> none, dec |-> FALSE_, find |-> 0, pid |-> <<>>]
             ELSE LET f == findProductId(d.output, <<>>) IN
                  IF f.ret # 0
                  THEN [res |-> InstallCert(f.result, d.output,
                                            repoProductId.repo, productDb,
                                            dir, h.faults),
                        dec |-> TRUE_, find |-> f.ret, pid |-> f.result]
                  ELSE [res |-> none, dec |-> TRUE_, find |-> f.ret,
                        pid |-> f.result]

\* writeProductDb (productdb.c): the file then holds the database, or err
writeProductDb(productDb, file, ok) ==
    IF ok THEN [err |-> FALSE, file |-> [exists |-> TRUE, db |-> productDb]]
    ELSE [err |-> TRUE, file |-> file]

\* writeRepoMap (279-286): writeProductDb and a message on error; the
\* certificate directory is not touched.
writeRepoMap_rollback(productDb, file, dir, ok) ==
    LET w == writeProductDb(productDb, file, ok)
    IN  [err |-> w.err, file |-> w.file,
         dir |-> IF w.err
                 THEN [dir EXCEPT !.files =
                          {f \in dir.files :
                              ~\E k \in DbKeys(productDb) : f[1] = k \o PEM_SUFFIX}]
                 ELSE dir]
writeRepoMap(productDb, file, dir, ok) ==
    LET w == writeProductDb(productDb, file, ok)
    IN  [err |-> w.err, file |-> w.file, dir |-> dir]

\* The database removeUnusedProductCerts is called with, line 255.
SweepDatabase_fresh(productDb) == initProductDb
SweepDatabase(productDb) == productDb

\* Value returned when PRODUCTDB_DIR cannot be created, line 190;
\* when there is no repository list, line 196; at the end, line 276.
RET_MKDIR_FAILED == 1
RET_NO_REPOS == 1
RET_HOOK == 1

\* ------------------------------------------------------------------------
\* pluginInitHandle (product-id.c 46-68)
\* ------------------------------------------------------------------------
SUPPORTED_LIBDNF_PLUGIN_API_VERSION == 1
PLUGIN_MODE_CONTEXT == "PLUGIN_MODE_CONTEXT"
NULL == [null |-> TRUE, version |-> 0, mode |-> "none"]

\* malloced: malloc(sizeof(PluginHandle)) returned memory.
pluginInitHandle_anymode(version, mode, malloced) ==
    IF version # SUPPORTED_LIBDNF_PLUGIN_API_VERSION THEN NULL
    ELSE IF malloced THEN [null |-> FALSE, version |-> version, mode |-> mode]
    ELSE NULL
pluginInitHandle(version, mode, malloced) ==
    IF version # SUPPORTED_LIBDNF_PLUGIN_API_VERSION THEN NULL
    ELSE IF mode # PLUGIN_MODE_CONTEXT THEN NULL
    ELSE IF malloced THEN [null |-> FALSE, version |-> version, mode |-> mode]
    ELSE NULL

\* ------------------------------------------------------------------------
\* The RepoProductId structures of a pass: malloc at line 225, free at
\* lines 238 and 266.  A structure is named by its repository (one
\* allocation per repository and pass).
\* ------------------------------------------------------------------------
malloc(h, addr) == [h EXCEPT ![addr].allocs = @ + 1]
free(h, addr) == [h EXCEPT ![addr].frees = @ + 1]

\* The pointers the loop of lines 264-267 frees.
FreedList_both(repoAndProductIds, activeRepoAndProductIds) ==
    repoAndProductIds \o activeRepoAndProductIds
FreedList(repoAndProductIds, activeRepoAndProductIds) == repoAndProductIds

RECURSIVE FreeAll(_, _)
FreeAll(h, list) ==
    IF list = <<>> THEN h
    ELSE FreeAll(free(h, Head(list).repo), Tail(list))

\* ------------------------------------------------------------------------
\* State
\* ------------------------------------------------------------------------
VARIABLES
    host,                     \* repositories, rpm database, file system faults
    dbDir,                    \* PRODUCTDB_DIR exists
    certDir,                  \* PRODUCT_CERT_DIR: [exists, files]
    persisted,                \* PRODUCTDB_FILE: [exists, db]
    pc,                       \* position of pluginHook
    enabledRepos,             \* locals of pluginHook
    repoAndProductIds,
    activeRepoAndProductIds,
    productDb,
    idx,                      \* loop index i (1-based)
    retval,                   \* value returned by pluginHook, -1 before a return
    how,                      \* which return of pluginHook was taken
    wrote,                    \* writeRepoMap saw no error
    removed,                  \* files the sweep of this pass unlinked
    log,                      \* one entry per installProductId call of the pass
    prev,                     \* result of the previous pass on this host
    dz,                       \* a run of decompress: [st, output, consumed, nreads, err, term]
    fx,                       \* a call of findProductId: [st, cert, ret, result, diag]
    heap,                     \* per RepoProductId of the pass: times allocated, times freed
    plugin                    \* [handle: what pluginInitHandle returned, id: hook id of the last call]

vars == <<host, dbDir, certDir, persisted, pc, enabledRepos, repoAndProductIds,
          activeRepoAndProductIds, productDb, idx, retval, how, wrote,
          removed, log, prev, dz, fx, heap, plugin>>

passLocals == <<enabledRepos, repoAndProductIds, activeRepoAndProductIds,
                productDb, idx>>
fileSystem == <<dbDir, certDir, persisted>>

NoDir == [exists |-> FALSE, files |-> {}]
NoFile == [exists |-> FALSE, db |-> {}]
NoPrev == [n |-> 0, dir |-> NoDir, persisted |-> NoFile]
DzIdle == [st |-> "idle", output |-> <<>>, consumed |-> <<>>, nreads |-> 0,
           err |-> FALSE, term |-> 0]
FxIdle == [st |-> "idle", cert |-> <<>>, ret |-> 0, result |-> <<>>,
           diag |-> "none"]

\* No RepoProductId was allocated yet.
HeapEmpty == [r \in RepoIds |-> [allocs |-> 0, frees |-> 0]]
\* The plugin after a pluginInitHandle that worked, no hook called yet.
PluginLoaded ==
    [handle |-> pluginInitHandle(SUPPORTED_LIBDNF_PLUGIN_API_VERSION,
                                 PLUGIN_MODE_CONTEXT, TRUE),
     id |-> "none"]

\* Certificate directories the first pass may find.
StrayFiles == {<<S99, OLD>>, <<SABC, OLD>>, <<P69, OLD>>}
InitialDirs == {NoDir} \cup {[exists |-> TRUE, files |-> fs] : fs \in SUBSET StrayFiles}

Init ==
    /\ host \in Hosts
    /\ dbDir \in BOOLEAN
    /\ certDir \in InitialDirs
    /\ persisted = NoFile
    /\ pc = "idle"
    /\ enabledRepos = <<>>
    /\ repoAndProductIds = <<>>
    /\ activeRepoAndProductIds = <<>>
    /\ productDb = initProductDb
    /\ idx = 1
    /\ retval = -1
    /\ how = "none"
    /\ wrote = FALSE
    /\ removed = {}
    /\ log = <<>>
    /\ prev = NoPrev
    /\ dz = DzIdle
    /\ fx = FxIdle
    /\ heap = HeapEmpty
    /\ plugin = PluginLoaded

\* ------------------------------------------------------------------------
\* pluginHook (product-id.c 170-277), one action per step
\* ------------------------------------------------------------------------
HOOK_TRANSACTION == "CONTEXT_TRANSACTION"
OtherHookIds == {"CONTEXT_PRE_CONF", "CONTEXT_CONF", "PRE_TRANSACTION",
                 "CONTEXT_PRE_REPOS_RELOAD", "UNKNOWN"}

HookIds == OtherHookIds \cup {HOOK_TRANSACTION}

\* The test of line 183.
IsTransactionHook_pre(id) == id \in {HOOK_TRANSACTION, "PRE_TRANSACTION"}
IsTransactionHook(id) == id = HOOK_TRANSACTION

\* Value returned for a NULL handle, line 177.
RET_NO_HANDLE == 0

\* Lines 175-178: no handle, return 0.
HookNoHandle ==
    /\ pc = "idle"
    /\ pc' = "returned"
    /\ retval' = RET_NO_HANDLE
    /\ how' = "nohandle"
    /\ UNCHANGED <<host, fileSystem, passLocals, wrote, removed, log, prev, dz,
                   fx, heap>>

\* Any hook id but CONTEXT_TRANSACTION: line 183 is false, return 1.
HookOther ==
    /\ pc = "idle"
    /\ pc' = "returned"
    /\ retval' = RET_HOOK
    /\ how' = "ignored"
    /\ UNCHANGED <<host, fileSystem, passLocals, wrote, removed, log, prev, dz,
                   fx, heap>>

pluginHookOther ==
    /\ \E id \in OtherHookIds : ~IsTransactionHook(id)
    /\ HookOther
    /\ UNCHANGED plugin

\* Lines 183-209: database directory, repository list, the three arrays,
\* initProductDb, getEnabled.
HookTransaction ==
    /\ pc = "idle"
    /\ IF g_mkdir_with_parents(dbDir, host.faults.mkdb) # 0
       THEN /\ pc' = "returned"
            /\ retval' = RET_MKDIR_FAILED
            /\ how' = "mkdir_failed"
            /\ UNCHANGED <<dbDir, passLocals>>
       ELSE /\ dbDir' = TRUE
            /\ IF host.nullRepos
               THEN /\ pc' = "returned"
                    /\ retval' = RET_NO_REPOS
                    /\ how' = "norepos"
                    /\ UNCHANGED passLocals
               ELSE /\ pc' = "fetch"
                    /\ retval' = -1
                    /\ how' = "running"
                    /\ enabledRepos' = getEnabled(RepoOrder, host)
                    /\ repoAndProductIds' = <<>>
                    /\ activeRepoAndProductIds' = <<>>
                    /\ productDb' = initProductDb
                    /\ idx' = 1
    /\ UNCHANGED <<host, certDir, persisted, wrote, removed, log, prev, dz, fx,
                   heap>>

pluginHookTransaction ==
    /\ IsTransactionHook(HOOK_TRANSACTION)
    /\ HookTransaction
    /\ UNCHANGED plugin

\* pluginHook as the host calls it: with the handle pluginInitHandle
\* returned and any hook id (lines 170-183, 276).
pluginHook ==
    \E id \in HookIds :
        /\ plugin' = [plugin EXCEPT !.id = id]
        /\ IF plugin.handle = NULL THEN HookNoHandle
           ELSE IF IsTransactionHook(id) THEN HookTransaction
           ELSE HookOther

\* The host loads the plugin: pluginInitHandle with the version and mode
\* of the host.
ApiVersions == {0, 1, 2}
PluginModes == {PLUGIN_MODE_CONTEXT, "PLUGIN_MODE_OTHER"}

pluginInitHandleCall ==
    /\ pc = "load"
    /\ \E version \in ApiVersions, mode \in PluginModes, malloced \in BOOLEAN :
          plugin' = [handle |-> pluginInitHandle(version, mode, malloced),
                     id |-> "none"]
    /\ pc' = "idle"
    /\ UNCHANGED <<host, fileSystem, passLocals, retval, how, wrote, removed,
                   log, prev, dz, fx, heap>>

\* One iteration of the loop of lines 211-244.
FetchStep ==
    /\ pc = "fetch"
    /\ idx <= Len(enabledRepos)
    /\ LET repo == enabledRepos[idx]
           f == fetchProductId(repo, host)
       IN  /\ repoAndProductIds' =
                  IF host.repos[repo].md = "record" /\ f.ret = 1
                  THEN Append(repoAndProductIds, f.repoProductId)
                  ELSE repoAndProductIds
           /\ heap' =
                  IF host.repos[repo].md = "record"
                  THEN IF f.ret = 1 THEN malloc(heap, repo)
                       ELSE free(malloc(heap, repo), repo)
                  ELSE heap
    /\ idx' = idx + 1
    /\ UNCHANGED <<host, fileSystem, pc, enabledRepos, activeRepoAndProductIds,
                   productDb, retval, how, wrote, removed, log, prev, dz, fx,
                   plugin>>

\* Line 246.
GetActiveStep ==
    /\ pc = "fetch"
    /\ idx > Len(enabledRepos)
    /\ activeRepoAndProductIds' = getActive(repoAndProductIds, host)
    /\ pc' = "install"
    /\ idx' = 1
    /\ UNCHANGED <<host, fileSystem, enabledRepos, repoAndProductIds, productDb,
                   retval, how, wrote, removed, log, prev, dz, fx, heap, plugin>>

\* One iteration of the loop of lines 248-252.
InstallStep ==
    /\ pc = "install"
    /\ idx <= Len(activeRepoAndProductIds)
    /\ LET rp == activeRepoAndProductIds[idx]
           r == installProductId(rp, productDb, certDir, host)
       IN  /\ productDb' = r.res.productDb
           /\ certDir' = r.res.dir
           /\ log' = Append(log, [repo |-> rp.repo, dec |-> r.dec,
                                  find |-> r.find, pid |-> r.pid,
                                  ret |-> r.res.ret])
    /\ idx' = idx + 1
    /\ UNCHANGED <<host, dbDir, persisted, pc, enabledRepos, repoAndProductIds,
                   activeRepoAndProductIds, retval, how, wrote, removed, prev, dz, fx, heap, plugin>>

\* Line 255.
SweepStep ==
    /\ pc = "install"
    /\ idx > Len(activeRepoAndProductIds)
    /\ certDir' = removeUnusedProductCerts(SweepDatabase(productDb), certDir,
                                           host.faults.undeletable)
    /\ removed' = FileNames(certDir.files) \ FileNames(certDir'.files)
    /\ pc' = "write"
    /\ UNCHANGED <<host, dbDir, persisted, passLocals, retval, how, wrote,
                   log, prev, dz, fx, heap, plugin>>

\* Line 259, writeRepoMap (279-286).
WriteStep ==
    /\ pc = "write"
    /\ LET w == writeRepoMap(productDb, persisted, certDir, host.faults.write)
       IN  /\ persisted' = w.file
           /\ certDir' = w.dir
           /\ wrote' = ~w.err
    /\ pc' = "free"
    /\ UNCHANGED <<host, dbDir, passLocals, retval, how, removed,
                   log, prev, dz, fx, heap, plugin>>

\* Lines 261-276: free the entries, the database and the arrays; return 1.
FreeStep ==
    /\ pc = "free"
    /\ enabledRepos' = <<>>
    /\ repoAndProductIds' = <<>>
    /\ activeRepoAndProductIds' = <<>>
    /\ productDb' = initProductDb
    /\ idx' = 1
    /\ pc' = "returned"
    /\ retval' = RET_HOOK
    /\ how' = "completed"
    /\ prev' = [n |-> Min(prev.n + 1, MaxRuns), dir |-> certDir,
                persisted |-> persisted]
    /\ heap' = FreeAll(heap, FreedList(repoAndProductIds, activeRepoAndProductIds))
    /\ UNCHANGED <<host, fileSystem, wrote, removed, log, dz, fx, plugin>>

\* The host takes the return value and goes on.
HostResume ==
    /\ pc = "returned"
    /\ pc' = "idle"
    /\ retval' = -1
    /\ how' = "none"
    /\ wrote' = FALSE
    /\ removed' = {}
    /\ log' = <<>>
    /\ heap' = HeapEmpty
    /\ UNCHANGED <<host, fileSystem, passLocals, prev, dz, fx, plugin>>

\* Between two hooks repositories, packages and the file system's
\* behaviour change.
HostChange ==
    /\ pc = "idle"
    /\ \E h \in Hosts : h # host /\ host' = h
    /\ prev' = NoPrev
    /\ UNCHANGED <<fileSystem, pc, passLocals, retval, how, wrote, removed,
                   log, dz, fx, heap, plugin>>

Next ==
    \/ pluginHookOther
    \/ pluginHookTransaction
    \/ FetchStep
    \/ GetActiveStep
    \/ InstallStep
    \/ SweepStep
    \/ WriteStep
    \/ FreeStep
    \/ HostResume
    \/ HostChange

Spec == Init /\ [][Next]_vars

\* ------------------------------------------------------------------------
\* decompress on its own: the stream is chosen read by read
\* ------------------------------------------------------------------------
DBytes == {0, 1}
Chunks(n) == [1..n -> DBytes]

\* What one gzread(input, buffer, CHUNK - 1) can deliver: all the bytes
\* asked for, or fewer at the end of the stream (eof), at a truncated
\* stream (eof and error) or at a corrupt one (error), or -1.  `last`
\* forces the stream to end with this read.
ReadOutcomes(last) ==
    {[n |-> CHUNK - 1, data |-> c, eof |-> FALSE, err |-> FALSE] :
        c \in IF last THEN {} ELSE Chunks(CHUNK - 1)}
    \cup UNION {{[n |-> k, data |-> c, eof |-> e[1], err |-> e[2]] :
                    c \in Chunks(k),
                    e \in {<<TRUE, FALSE>>, <<TRUE, TRUE>>, <<FALSE, TRUE>>}} :
                k \in 0..(CHUNK - 2)}
    \cup {[n |-> -1, data |-> c, eof |-> FALSE, err |-> TRUE] :
             c \in Chunks(0) \cup Chunks(1)}

QuietHost == [nullRepos |-> FALSE,
              repos |-> [r \in RepoIds |-> Base(A69)],
              installed |-> InstalledPackages,
              faults |-> NoFaults]

InitDecompress ==
    /\ host = QuietHost
    /\ dbDir = FALSE
    /\ certDir = NoDir
    /\ persisted = NoFile
    /\ pc = "decompress"
    /\ enabledRepos = <<>>
    /\ repoAndProductIds = <<>>
    /\ activeRepoAndProductIds = <<>>
    /\ productDb = initProductDb
    /\ idx = 1
    /\ retval = -1
    /\ how = "none"
    /\ wrote = FALSE
    /\ removed = {}
    /\ log = <<>>
    /\ prev = NoPrev
    /\ dz = [DzIdle EXCEPT !.st = "loop"]
    /\ fx = FxIdle
    /\ heap = HeapEmpty
    /\ plugin = PluginLoaded

\* One iteration of while (1), lines 611-632.  For bytes_read = -1 the
\* store buffer[-1] is outside the array and the buffer is printed as the
\* stack left it: rd.data stands for what is found there.
GzRead(outcomes) ==
    /\ pc = "decompress"
    /\ dz.st = "loop"
    /\ dz.nreads < MaxReads
    /\ \E rd \in outcomes :
          LET r == DecompressStep(dz.output, rd)
          IN  dz' = [st |-> r.st,
                     output |-> r.output,
                     consumed |-> IF rd.n >= 0 THEN dz.consumed \o rd.data
                                  ELSE dz.consumed,
                     nreads |-> dz.nreads + 1,
                     err |-> dz.err \/ rd.err,
                     term |-> TerminatorIndex(rd.n)]
    /\ UNCHANGED <<host, fileSystem, pc, passLocals, retval, how, wrote,
                   removed, log, prev, fx, heap, plugin>>

GzReadStep == GzRead(ReadOutcomes(dz.nreads + 1 = MaxReads))

NextDecompress == GzReadStep

SpecDecompress == InitDecompress /\ [][NextDecompress]_vars

\* decompress is a loop of one thread: while it has not returned, its next
\* iteration is executed.
\* The streams of this specification have full chunks of one repeated
\* byte; short reads deliver any bytes.
PlainOutcomes(last) ==
    {rd \in ReadOutcomes(last) :
        rd.n = CHUNK - 1 => \A k \in DOMAIN rd.data : rd.data[k] = rd.data[1]}

GzReadStepPlain == GzRead(PlainOutcomes(dz.nreads + 1 = MaxReads))

NextDecompressLive == GzReadStepPlain

SpecDecompressLive ==
    InitDecompress /\ [][NextDecompressLive]_vars /\ WF_vars(GzReadStepPlain)

\* ------------------------------------------------------------------------
\* removeUnusedProductCerts on its own: any directory, any database
\* ------------------------------------------------------------------------
SweepNames == {P69, S99, SDOT, SABC, S6A, S69PEM, SNOTES}
SweepKeys == {<<"6", "9">>, <<"9", "9">>, <<>>, <<"a", "b", "c">>, <<"6", "a">>}

InitSweep ==
    /\ \E u \in {{}, {S99}, {P69}, {SDOT}, {S99, P69}} :
          host = [QuietHost EXCEPT !.faults.undeletable = u]
    /\ dbDir = TRUE
    /\ \/ certDir = NoDir
       \/ \E ns \in SUBSET SweepNames :
             certDir = [exists |-> TRUE, files |-> {<<n, OLD>> : n \in ns}]
    /\ persisted = NoFile
    /\ pc = "install"
    /\ enabledRepos = <<>>
    /\ repoAndProductIds = <<>>
    /\ activeRepoAndProductIds = <<>>
    /\ \E ks \in SUBSET SweepKeys : productDb = {<<k, "repo-a">> : k \in ks}
    /\ idx = 1
    /\ retval = -1
    /\ how = "running"
    /\ wrote = FALSE
    /\ removed = {}
    /\ log = <<>>
    /\ prev = NoPrev
    /\ dz = DzIdle
    /\ fx = FxIdle
    /\ heap = HeapEmpty
    /\ plugin = PluginLoaded

NextSweep == SweepStep

SpecSweep == InitSweep /\ [][NextSweep]_vars

\* ------------------------------------------------------------------------
\* findProductId on its own: any text of up to MaxExts + 1 bytes
\* ------------------------------------------------------------------------
FindBytes == {PEM_HDR, 7} \cup ExtCodes
FindTexts == UNION {[1..n -> FindBytes] : n \in 0..(MaxExts + 1)}

InitFind ==
    /\ host = QuietHost
    /\ dbDir = FALSE
    /\ certDir = NoDir
    /\ persisted = NoFile
    /\ pc = "find"
    /\ enabledRepos = <<>>
    /\ repoAndProductIds = <<>>
    /\ activeRepoAndProductIds = <<>>
    /\ productDb = initProductDb
    /\ idx = 1
    /\ retval = -1
    /\ how = "none"
    /\ wrote = FALSE
    /\ removed = {}
    /\ log = <<>>
    /\ prev = NoPrev
    /\ dz = DzIdle
    /\ \E t \in FindTexts : fx = [FxIdle EXCEPT !.st = "ready", !.cert = t]
    /\ heap = HeapEmpty
    /\ plugin = PluginLoaded

\* The call of line 492: result is the empty GString of line 490.
FindStep ==
    /\ pc = "find"
    /\ fx.st = "ready"
    /\ LET f == findProductId(fx.cert, <<>>)
       IN  fx' = [st |-> "done", cert |-> fx.cert, ret |-> f.ret,
                  result |-> f.result, diag |-> f.diag]
    /\ UNCHANGED <<host, fileSystem, pc, passLocals, retval, how, wrote,
                   removed, log, prev, dz, heap, plugin>>

NextFind == FindStep

SpecFind == InitFind /\ [][NextFind]_vars

\* ------------------------------------------------------------------------
\* getActive on its own: any package lists of up to MaxPkgs packages
\* ------------------------------------------------------------------------
PkgLists == UNION {[1..n -> {FOO, BAR, BAZ}] : n \in 0..MaxPkgs}
Candidates ==
    {<<>>} \cup {<<fetchProductId(r, QuietHost).repoProductId>> : r \in RepoIds}
    \cup {[k \in 1..2 |-> fetchProductId(RepoOrder[k], QuietHost).repoProductId]}

\* The state at line 246: the fetch loop is over.
InitActive ==
    /\ \E a \in PkgLists, b \in PkgLists, i \in PkgLists :
          host = [QuietHost EXCEPT !.repos["repo-a"].avail = a,
                                   !.repos["repo-b"].avail = b,
                                   !.installed = i]
    /\ dbDir = TRUE
    /\ certDir = NoDir
    /\ persisted = NoFile
    /\ pc = "fetch"
    /\ enabledRepos = <<>>
    /\ repoAndProductIds \in Candidates
    /\ activeRepoAndProductIds = <<>>
    /\ productDb = initProductDb
    /\ idx = 1
    /\ retval = -1
    /\ how = "running"
    /\ wrote = FALSE
    /\ removed = {}
    /\ log = <<>>
    /\ prev = NoPrev
    /\ dz = DzIdle
    /\ fx = FxIdle
    /\ heap = HeapEmpty
    /\ plugin = PluginLoaded

NextActive == GetActiveStep

SpecActive == InitActive /\ [][NextActive]_vars

\* ------------------------------------------------------------------------
\* The plugin from its loading on: any version, mode and hook id
\* ------------------------------------------------------------------------
HookHosts ==
    {QuietHost,
     [QuietHost EXCEPT !.faults.mkdb = FALSE],
     [QuietHost EXCEPT !.nullRepos = TRUE],
     [QuietHost EXCEPT !.repos["repo-a"].fetch = FALSE,
                       !.repos["repo-b"].art = A70]}

InitHook ==
    /\ host \in HookHosts
    /\ dbDir \in BOOLEAN
    /\ certDir \in {NoDir, [exists |-> TRUE, files |-> {<<S99, OLD>>}]}
    /\ persisted = NoFile
    /\ pc = "load"
    /\ enabledRepos = <<>>
    /\ repoAndProductIds = <<>>
    /\ activeRepoAndProductIds = <<>>
    /\ productDb = initProductDb
    /\ idx = 1
    /\ retval = -1
    /\ how = "none"
    /\ wrote = FALSE
    /\ removed = {}
    /\ log = <<>>
    /\ prev = NoPrev
    /\ dz = DzIdle
    /\ fx = FxIdle
    /\ heap = HeapEmpty
    /\ plugin = [handle |-> NULL, id |-> "none"]

NextHook ==
    \/ pluginInitHandleCall
    \/ pluginHook
    \/ FetchStep
    \/ GetActiveStep
    \/ InstallStep
    \/ SweepStep
    \/ WriteStep
    \/ FreeStep
    \/ HostResume

SpecHook == InitHook /\ [][NextHook]_vars

\* ------------------------------------------------------------------------
\* Properties
\* ------------------------------------------------------------------------
\* Vocabulary of the properties, stated without the operators of the code.
IsPemName(n) == Len(n) >= 4 /\ \A k \in 1..4 : n[Len(n) - 4 + k] = PEM_SUFFIX[k]
PemStem(n) == [k \in 1..(Len(n) - 4) |-> n[k]]
AllDigits(str) == \A k \in 1..Len(str) : str[k] \in {DigitChars[d] : d \in 1..10}
PemName(productId) == productId \o PEM_SUFFIX
InstallPending == pc = "install" /\ idx <= Len(activeRepoAndProductIds)
SweepPending == pc = "install" /\ idx > Len(activeRepoAndProductIds)
AfterSweep == pc \in {"write", "free"}

\* findProductId fails on what decompress delivers for the repository.
FindFails(repo) ==
    LET prof == host.repos[repo]
        d == decompress(prof.art, <<>>)
    IN  /\ prof.gz
        /\ d.ret = TRUE_
        /\ findProductId(d.output, <<>>).ret # 1

\* C1: when findProductId fails for an active repository, the call of
\* installProductId for it writes no file to the certificate directory and
\* adds no pair to the database, and the loop goes on to the next
\* active repository.
C1_FailedFindContributesNothing ==
    [][(InstallPending /\ FindFails(activeRepoAndProductIds[idx].repo))
        => /\ certDir' = certDir
           /\ productDb' = productDb
           /\ pc' = "install"
           /\ idx' = idx + 1]_vars

\* C2: when a stream of text bytes ends without any read reporting an
\* error, decompress returns success and its output is the concatenation,
\* in read order, of all chunks read.
C2_OutputIsAllChunks ==
    (dz.st = "ok" /\ ~dz.err /\ \A k \in 1..Len(dz.consumed) : dz.consumed[k] # 0)
        => dz.output = dz.consumed

\* C3: from the start of a pass until the sweep, every pair of the
\* persisted database file is in the in-memory database.
C3_PersistedPairsLoaded ==
    (pc \in {"fetch", "install"} /\ persisted.exists)
        => persisted.db \subseteq productDb

\* C4: the value pluginHook returns when the database directory cannot be
\* created differs from the value it returns after a completed pass.
C4_MkdirFailureReturnDiffers ==
    (pc = "returned" /\ how = "mkdir_failed") => retval # RET_HOOK

\* C5: the sweep runs after installProductId was called for every active
\* repository, and every certificate installed in the pass (file written,
\* pair recorded) is still in the directory after the sweep of that pass.
C5_InstalledCertSurvivesSweep ==
    AfterSweep =>
        /\ Len(log) = Len(activeRepoAndProductIds)
        /\ \A k \in DOMAIN log :
              log[k].ret = 1 =>
                  /\ <<log[k].pid, log[k].repo>> \in productDb
                  /\ HasFile(certDir, PemName(log[k].pid))

C5_Witness ==
    /\ pc = "write"
    /\ removed # {}
    /\ \E k \in DOMAIN log : log[k].ret = 1 /\ log[k].find = 1

\* C6: once a pass has written the database, every product id that is a
\* key of the written database has its file <product_id>.pem in the
\* certificate directory.
C6_WrittenKeysHaveFiles ==
    (pc \in {"free", "returned"} /\ wrote) =>
        \A k \in DbKeys(persisted.db) : HasFile(certDir, PemName(k))

C6_Witness ==
    /\ pc = "returned"
    /\ how = "completed"
    /\ wrote
    /\ P70 \in removed
    /\ <<"6", "9">> \in DbKeys(persisted.db)

\* C7: a sweep whose deletions all succeed removes exactly the *.pem files
\* whose stem is all digits and is not a key of the database; all other
\* files stay as they are.
StaleNames(dir, db) ==
    {n \in FileNames(dir.files) :
        IsPemName(n) /\ AllDigits(PemStem(n)) /\ PemStem(n) \notin DbKeys(db)}

C7_SweepRemovesExactlyStale ==
    [][(SweepPending /\ pc' = "write"
        /\ StaleNames(certDir, productDb) \cap host.faults.undeletable = {})
        => /\ certDir'.exists = certDir.exists
           /\ certDir'.files =
                 {f \in certDir.files : f[1] \notin StaleNames(certDir, productDb)}]_vars

C7_Witness ==
    /\ pc = "write"
    /\ S99 \in removed
    /\ SDOT \in removed
    /\ host.faults.undeletable = {}
    /\ hasProductId(productDb, <<"6", "9">>)
    /\ {P69, SABC, SNOTES, S69PEM} \subseteq FileNames(certDir.files)

\* C8: the sweep never deletes a *.pem file whose stem has a character
\* that is not a digit, whatever the database holds.
C8_NonNumericStemKept ==
    [][SweepPending =>
        \A f \in certDir.files :
            (IsPemName(f[1]) /\ ~AllDigits(PemStem(f[1]))) => f \in certDir'.files]_vars

C8_Witness ==
    /\ pc = "write"
    /\ productDb = {}
    /\ removed # {}
    /\ {SABC, S6A} \subseteq FileNames(certDir.files)

\* C9: a pass that follows a completed pass on an unchanged host leaves
\* the certificate files, their contents and the persisted database as
\* the first pass left them.
C9_SecondPassChangesNothing ==
    (pc = "free" /\ prev.n >= 1) =>
        /\ certDir = prev.dir
        /\ persisted = prev.persisted

C9_Witness ==
    /\ pc = "free"
    /\ prev.n >= 1
    /\ wrote
    /\ \E k \in DOMAIN log : log[k].ret = 1 /\ log[k].find = 1
    /\ \E k \in DOMAIN log : log[k].find = -1

\* C10: a repository that is enabled, has a productid record, is fetched,
\* supplies an installed package and whose artifact holds a certificate
\* for product P has, after the pass, the file P.pem and the pair
\* (P, repository) in the database, when the directory can be created and
\* the file written.
CertOf(repo) == findProductId(host.repos[repo].art.data, <<>>)

Qualifies(repo) ==
    LET prof == host.repos[repo] IN
    /\ prof.enabled
    /\ prof.md = "record"
    /\ prof.fetch
    /\ \E j \in DOMAIN prof.avail : \E k \in DOMAIN host.installed :
          prof.avail[j] = host.installed[k]
    /\ prof.gz
    /\ ~prof.art.bad
    /\ CertOf(repo).ret = 1
    /\ certDir.exists \/ host.faults.mkcert
    /\ PemName(CertOf(repo).result) \notin host.faults.unwritable

C10_QualifiedRepoInstalled ==
    pc = "free" =>
        \A repo \in RepoIds :
            Qualifies(repo) =>
                /\ HasFile(certDir, PemName(CertOf(repo).result))
                /\ <<CertOf(repo).result, repo>> \in productDb

\* C11: installProductId is called in a pass, and a pair is in the
\* database of the pass, only for a repository that is enabled, has a
\* productid record, was fetched and supplies an installed package; an
\* enabled repository with a record that supplies no installed package
\* gets no call and no pair.
SuppliesInstalled(repo) ==
    \E j \in DOMAIN host.repos[repo].avail : \E k \in DOMAIN host.installed :
        host.repos[repo].avail[j] = host.installed[k]

Eligible(repo) ==
    /\ host.repos[repo].enabled
    /\ host.repos[repo].md = "record"
    /\ host.repos[repo].fetch
    /\ SuppliesInstalled(repo)

C11_OnlyEligibleReposContribute ==
    (pc \in {"install", "write", "free"}) =>
        /\ \A k \in DOMAIN log : Eligible(log[k].repo)
        /\ \A p \in productDb : Eligible(p[2])
        /\ \A k \in DOMAIN activeRepoAndProductIds :
              Eligible(activeRepoAndProductIds[k].repo)

C11_Witness ==
    /\ pc = "free"
    /\ host.repos["repo-a"].enabled
    /\ host.repos["repo-a"].md = "record"
    /\ host.repos["repo-a"].fetch
    /\ host.repos["repo-a"].avail # <<>>
    /\ ~SuppliesInstalled("repo-a")
    /\ Len(log) = 1
    /\ log[1].repo = "repo-b"
    /\ log[1].ret = 1
    /\ productDb = {<<log[1].pid, "repo-b">>}

\* The extensions of a parsable certificate text, read off the text.
CertExts(text) == [k \in 1..(Len(text) - 1) |-> ExtOid(text[k + 1])]
Parsable(text) ==
    /\ Len(text) >= 1
    /\ text[1] = PEM_HDR
    /\ \A k \in 2..Len(text) : text[k] \in ExtCodes
VendorArcs == <<1, 3, 6, 1, 4, 1, 2312, 9, 1>>
\* The dotted text of the OID starts with the vendor prefix: its first
\* eight arcs are the vendor's and the ninth begins with the digit 1.
StartsWithVendor(arcs) ==
    /\ Len(arcs) >= 9
    /\ \A k \in 1..8 : arcs[k] = VendorArcs[k]
    /\ Head(ItoA(arcs[9])) = "1"
IsProductOid(arcs) == StartsWithVendor(arcs) /\ Len(arcs) >= 10

\* C12: for every parsable certificate with an extension whose OID starts
\* with the vendor prefix and has at least 10 components, findProductId
\* returns 1 and result is component 9 of the first such OID, whatever
\* extensions precede it.
C12_ProductOidAlwaysFound ==
    (fx.st = "done" /\ Parsable(fx.cert)
     /\ \E k \in DOMAIN CertExts(fx.cert) : IsProductOid(CertExts(fx.cert)[k]))
        => LET exts == CertExts(fx.cert)
               first == CHOOSE k \in DOMAIN exts :
                            /\ IsProductOid(exts[k])
                            /\ \A j \in 1..(k - 1) : ~IsProductOid(exts[j])
           IN  /\ fx.ret = 1
               /\ fx.result = ItoA(exts[first][10])

\* The two failures of findProductId on a parsable certificate.
OidAbsent(text) ==
    Parsable(text) /\ \A k \in DOMAIN CertExts(text) : ~StartsWithVendor(CertExts(text)[k])
OidMalformed(text) ==
    /\ Parsable(text)
    /\ \E k \in DOMAIN CertExts(text) : StartsWithVendor(CertExts(text)[k])
    /\ \A k \in DOMAIN CertExts(text) : ~IsProductOid(CertExts(text)[k])

\* C13 as claimed: findProductId fails for a certificate without the
\* vendor OID and for one whose vendor OID has fewer than 10 components,
\* and what it returns for the second differs from what it returns for
\* the first.
C13_FailuresDifferInReturn ==
    LET absent == findProductId(<<PEM_HDR, 2>>, <<>>) IN
    /\ (fx.st = "done" /\ OidAbsent(fx.cert)) => fx.ret # 1
    /\ (fx.st = "done" /\ OidMalformed(fx.cert)) =>
          /\ fx.ret # 1
          /\ <<fx.ret, fx.result>> # <<absent.ret, absent.result>>

\* C13 amended: findProductId fails for both certificates with the same
\* return value -1 and result left as it was; the two failures differ
\* only in the message logged, a warning for the absent OID and an error
\* for the OID with fewer than 10 components.
C13_FailuresDifferInDiagnosticOnly ==
    /\ (fx.st = "done" /\ OidAbsent(fx.cert)) =>
          fx.ret = -1 /\ fx.result = <<>> /\ fx.diag = "warn"
    /\ (fx.st = "done" /\ OidMalformed(fx.cert)) =>
          fx.ret = -1 /\ fx.result = <<>> /\ fx.diag = "error"

C13_Witness ==
    /\ fx.st = "done"
    /\ fx.cert = <<PEM_HDR, 2, 5>>
    /\ OidMalformed(fx.cert)
    /\ fx.ret = -1
    /\ fx.diag = "error"

\* Without a shorter vendor-prefixed extension before it, the product OID
\* is found.
ProductOidFirstFound ==
    (fx.st = "done" /\ Parsable(fx.cert)
     /\ \E k \in DOMAIN CertExts(fx.cert) :
           /\ IsProductOid(CertExts(fx.cert)[k])
           /\ \A j \in 1..(k - 1) : ~StartsWithVendor(CertExts(fx.cert)[j]))
        => fx.ret = 1

FetchFailed(repo) ==
    /\ host.repos[repo].enabled
    /\ host.repos[repo].md = "record"
    /\ ~host.repos[repo].fetch

InSeq(s, repo) == \E k \in DOMAIN s : s[k].repo = repo

C15_FetchFailureState ==
    \A r \in RepoIds : FetchFailed(r) =>
        /\ ~InSeq(repoAndProductIds, r)
        /\ ~InSeq(activeRepoAndProductIds, r)
        /\ ~InSeq(log, r)
        /\ \A p \in productDb : p[2] # r
        /\ (pc \in {"write", "free"} /\ certDir.exists) =>
              StaleNames(certDir, productDb) \subseteq host.faults.undeletable
        /\ (pc = "free" /\ host.faults.write) =>
              (wrote /\ persisted = [exists |-> TRUE, db |-> productDb])
        /\ \A o \in RepoIds \ {r} : Eligible(o) =>
              /\ (pc \in {"install", "write", "free"}) =>
                    (InSeq(repoAndProductIds, o) /\ InSeq(activeRepoAndProductIds, o))
              /\ (pc \in {"write", "free"}) => InSeq(log, o)

C15_FailedFetchExcludesOnlyThatRepo ==
    /\ []C15_FetchFailureState
    /\ [][(pc = "fetch" /\ idx <= Len(enabledRepos) /\ FetchFailed(enabledRepos[idx]))
           => (pc' = "fetch" /\ idx' = idx + 1
               /\ repoAndProductIds' = repoAndProductIds)]_vars
    /\ [][(\E r \in RepoIds : FetchFailed(r)) =>
            /\ pc = "fetch" => pc' \in {"fetch", "install"}
            /\ pc = "install" => pc' \in {"install", "write"}
            /\ pc = "write" => pc' = "free"]_vars

C15_Witness ==
    /\ pc = "free"
    /\ FetchFailed("repo-a")
    /\ Len(log) = 1
    /\ log[1].repo = "repo-b"
    /\ log[1].ret = 1
    /\ wrote
    /\ removed # {}
    /\ persisted.db = {<<log[1].pid, "repo-b">>}

\* C16: when the compressed stream of an active repository reports an
\* error before its end, decompress returns FALSE and the call of
\* installProductId writes no file and adds no pair.
StreamErrs(repo) == host.repos[repo].gz /\ host.repos[repo].art.bad

C17_FailedDeletionDoesNotStopSweep ==
    [][(SweepPending /\ pc' = "write" /\ certDir.exists
        /\ StaleNames(certDir, productDb) \cap host.faults.undeletable # {})
        => LET gone == StaleNames(certDir, productDb) \ host.faults.undeletable
           IN  /\ certDir'.files = {f \in certDir.files : f[1] \notin gone}
               /\ removed' = gone]_vars

C17_Witness ==
    /\ pc = "write"
    /\ host.faults.undeletable = {P69}
    /\ P69 \in StaleNames(certDir, productDb)
    /\ removed = {SDOT, S99}
    /\ {SABC, S6A, SNOTES} \subseteq FileNames(certDir.files)

\* C18: the database file is written after every install and after the
\* sweep, and nothing changes the certificate directory or the database
\* file after that step; when the write fails the certificate files stay
\* as they are and pluginHook still runs to its last return.
C18_WriteIsLastAndFailureRollsNothingBack ==
    /\ [](pc = "write" =>
            /\ Len(log) = Len(activeRepoAndProductIds)
            /\ idx > Len(activeRepoAndProductIds)
            /\ certDir.exists =>
                  StaleNames(certDir, productDb) \subseteq host.faults.undeletable)
    /\ [][persisted' # persisted => pc = "write"]_vars
    /\ [][pc = "write" =>
            /\ certDir' = certDir
            /\ pc' = "free"
            /\ wrote' = host.faults.write
            /\ host.faults.write => persisted' = [exists |-> TRUE, db |-> productDb]]_vars
    /\ [][pc = "free" =>
            /\ certDir' = certDir
            /\ persisted' = persisted
            /\ pc' = "returned"
            /\ retval' = 1
            /\ how' = "completed"]_vars

C18_Witness ==
    /\ pc = "returned"
    /\ how = "completed"
    /\ retval = 1
    /\ ~host.faults.write
    /\ ~wrote
    /\ ~persisted.exists
    /\ removed # {}
    /\ \E k \in DOMAIN log : log[k].ret = 1 /\ HasFile(certDir, PemName(log[k].pid))

ReposYielding(productId) ==
    {log[k].repo : k \in {j \in DOMAIN log : log[j].find = 1 /\ log[j].pid = productId}}
ReposOf(db, productId) == {p[2] : p \in {q \in db : q[1] = productId}}
FilesNamed(dir, name) == {f \in dir.files : f[1] = name}

\* C20 as claimed: when the certificates of two or more active
\* repositories yield the same product id P in a pass, the database maps
\* P to exactly those repositories and there is exactly one file P.pem.
C20_SharedProductMapsToAllRepos ==
    pc = "free" =>
        \A k \in DOMAIN log :
            Cardinality(ReposYielding(log[k].pid)) >= 2 =>
                /\ ReposOf(productDb, log[k].pid) = ReposYielding(log[k].pid)
                /\ certDir.exists
                /\ Cardinality(FilesNamed(certDir, PemName(log[k].pid))) = 1

\* C20 amended: the same, for a product id whose file P.pem can be
\* written (the certificate directory exists or can be created, the file
\* can be opened).
C20_SharedWritableProductMapsToAllRepos ==
    pc = "free" =>
        \A k \in DOMAIN log :
            (/\ Cardinality(ReposYielding(log[k].pid)) >= 2
             /\ certDir.exists \/ host.faults.mkcert
             /\ PemName(log[k].pid) \notin host.faults.unwritable) =>
                /\ ReposOf(productDb, log[k].pid) = ReposYielding(log[k].pid)
                /\ certDir.exists
                /\ Cardinality(FilesNamed(certDir, PemName(log[k].pid))) = 1

C20_Witness ==
    /\ pc = "free"
    /\ Len(log) = 2
    /\ log[1].find = 1
    /\ log[2].find = 1
    /\ log[1].pid = <<"6", "9">>
    /\ log[2].pid = <<"6", "9">>
    /\ productDb = {<<log[1].pid, "repo-a">>, <<log[1].pid, "repo-b">>}
    /\ Cardinality(FilesNamed(certDir, P69)) = 1
    /\ <<P69, OLD>> \notin certDir.files
    /\ prev.n = 0

\* C21: a pass runs only for the hook id CONTEXT_TRANSACTION; a call of
\* pluginHook with any other hook id returns at once and leaves the
\* certificate directory, the database directory and the persisted
\* database unchanged, allocates no entry and fetches nothing.
PassRunning == pc \in {"fetch", "install", "write", "free"}

C21_OtherHookIdsChangeNothing ==
    /\ [](PassRunning => plugin.id = HOOK_TRANSACTION)
    /\ [][(pc = "idle" /\ pc' # "idle" /\ plugin'.id # HOOK_TRANSACTION)
           => /\ pc' = "returned"
              /\ certDir' = certDir
              /\ dbDir' = dbDir
              /\ persisted' = persisted
              /\ repoAndProductIds' = repoAndProductIds
              /\ heap' = heap
              /\ log' = log]_vars

C21_Witness ==
    /\ pc = "returned"
    /\ plugin.handle # NULL
    /\ plugin.id = "PRE_TRANSACTION"
    /\ retval = 1
    /\ ~dbDir
    /\ certDir = [exists |-> TRUE, files |-> {<<S99, OLD>>}]
    /\ host = QuietHost

\* C22: every RepoProductId allocated in a pass is freed exactly once
\* before pluginHook returns: in the same fetch step when its fetch
\* fails, otherwise at the end of the pass; until then the allocated
\* entries are those of the candidate list; the active list holds
\* entries of the candidate list only, each repository at most once.
Live(r) == heap[r].allocs - heap[r].frees

C22_HeapState ==
    /\ \A r \in RepoIds : heap[r].allocs <= 1 /\ heap[r].frees <= heap[r].allocs
    /\ PassRunning => \A r \in RepoIds : Live(r) = 1 <=> InSeq(repoAndProductIds, r)
    /\ pc \in {"idle", "returned"} => \A r \in RepoIds : Live(r) = 0
    /\ \A k \in DOMAIN activeRepoAndProductIds :
          /\ \E j \in DOMAIN repoAndProductIds :
                repoAndProductIds[j] = activeRepoAndProductIds[k]
          /\ \A j \in DOMAIN activeRepoAndProductIds :
                activeRepoAndProductIds[j].repo = activeRepoAndProductIds[k].repo
                    => j = k

C22_EntriesFreedExactlyOnce ==
    /\ []C22_HeapState
    /\ [][(pc = "fetch" /\ idx <= Len(enabledRepos) /\ FetchFailed(enabledRepos[idx]))
           => heap'[enabledRepos[idx]] = [allocs |-> 1, frees |-> 1]]_vars
    /\ [][pc = "free" =>
            \A r \in RepoIds :
                heap'[r].frees = heap[r].frees
                                 + (IF InSeq(repoAndProductIds, r) THEN 1 ELSE 0)]_vars

C22_Witness ==
    /\ pc = "returned"
    /\ how = "completed"
    /\ FetchFailed("repo-a")
    /\ heap["repo-a"] = [allocs |-> 1, frees |-> 1]
    /\ heap["repo-b"] = [allocs |-> 1, frees |-> 1]
    /\ Len(log) = 1
    /\ log[1].repo = "repo-b"

\* C23: the index at which decompress writes the terminator into its
\* buffer of CHUNK bytes is within 0..CHUNK-1 after every read, whatever
\* the read returned.
C23_TerminatorIndexInBuffer ==
    dz.nreads > 0 => dz.term \in 0..(CHUNK - 1)

\* C24: decompress returns after finitely many reads on every finite
\* stream, with success at the end of the stream or failure at a stream
\* error, also when the last chunk fills the read size exactly and when a
\* read comes back short.
C24_DecompressTerminates ==
    <>(dz.st \in {"ok", "fail"} /\ dz.nreads <= MaxReads)

\* A stream whose last data chunk filled the read size: one more read
\* returns 0 bytes at the end of the stream.
C24_Witness ==
    /\ dz.st = "ok"
    /\ dz.nreads = MaxReads
    /\ dz.term = 0
    /\ Len(dz.consumed) = (MaxReads - 1) * (CHUNK - 1)
    /\ ~dz.err

\* C25: the sweep handles the file ".pem" as it handles a file with an
\* all-digit stem: the file is gone after the sweep exactly when the
\* database has no pair under the empty product id; and the database has
\* such a pair only for a repository whose install of this pass ran under
\* the empty product id.
EmptyId == <<>>

C25_EmptyStemSweptAsNumeric ==
    /\ [][(SweepPending /\ pc' = "write" /\ HasFile(certDir, PemName(EmptyId)))
           => (HasFile(certDir', PemName(EmptyId)) <=> EmptyId \in DbKeys(productDb))]_vars
    /\ [](\A p \in productDb :
             p[1] = EmptyId =>
                 \E k \in DOMAIN log :
                     log[k].repo = p[2] /\ log[k].pid = EmptyId /\ log[k].ret = 1)

C25_Witness ==
    /\ pc = "write"
    /\ PemName(EmptyId) \in removed
    /\ EmptyId \notin DbKeys(productDb)
    /\ \E k \in DOMAIN log : log[k].ret = 1

\* C26: a handle exists only for the supported plugin API version and the
\* context mode, a pass only runs with a handle, and pluginHook called
\* without a handle returns 0 for every hook id and changes nothing: no
\* directory, no entry, no install, no sweep, no database write.
C26_HandleState ==
    /\ plugin.handle # NULL =>
          /\ plugin.handle.version = SUPPORTED_LIBDNF_PLUGIN_API_VERSION
          /\ plugin.handle.mode = PLUGIN_MODE_CONTEXT
    /\ PassRunning => plugin.handle # NULL

C26_NoHandleNoReconciliation ==
    /\ []C26_HandleState
    /\ [][(pc = "idle" /\ pc' # "idle" /\ plugin.handle = NULL)
           => /\ pc' = "returned"
              /\ retval' = 0
              /\ fileSystem' = fileSystem
              /\ passLocals' = passLocals
              /\ heap' = heap
              /\ log' = log
              /\ removed' = removed
              /\ wrote' = wrote]_vars

C26_Witness ==
    /\ pc = "returned"
    /\ plugin.handle = NULL
    /\ plugin.id = HOOK_TRANSACTION
    /\ retval = 0
    /\ ~dbDir
    /\ host = QuietHost
    /\ certDir = [exists |-> TRUE, files |-> {<<S99, OLD>>}]

====
